---- MODULE Spec2Model ----
(***************************************************************************)
(* A model of FlinkJiraRule (flink_jira_rule.py): the paginated query      *)
(* engine get_issues, the activity oracle has_recently_updated_subtask,    *)
(* the dry-run mutation gateway (add_label .. set_priority) and the two    *)
(* phases mark_stale_tickets_stale / handle_tickets_marked_stale, run      *)
(* against a tracker (jira_client) that stores what it is sent.            *)
(***************************************************************************)
EXTENDS Integers, Sequences, FiniteSets, TLC

VARIABLES
    jira,        \* tracker: key -> [labels, comments, status, assignee, priority]
    subtasks,    \* tracker: key -> number of subtasks updated within the window
    universe,    \* tracker: size of the result set of the bare paging query
    pages,       \* tracker: "full" pages, or "short" (non-empty, possibly shorter)
    is_dry_run,  \* self.is_dry_run
    rule,        \* which concrete rule: what handle_stale_ticket does
    pc,          \* position of the running call
    phase,       \* the entry point that is running
    jql_query,   \* the query the entry point was given
    gq,          \* get_issues frame: its jql_query
    caller,      \* get_issues frame: who called it
    current,     \* get_issues frame: current
    total,       \* get_issues frame: total
    acc,         \* get_issues frame: issues
    issues,      \* phase frame: the list get_issues returned
    idx,         \* phase frame: position of the for loop (1-based)
    issue,       \* phase frame: the issue being processed
    trace,       \* events of the running call, in order
    runs,        \* number of calls started so far
    jira0,       \* the tracker as it was when the running call started
    prev         \* summary of the call before the running one

vars == <<jira, subtasks, universe, pages, is_dry_run, rule, pc, phase,
          jql_query, gq, caller, current, total, acc, issues, idx, issue,
          trace, runs, jira0, prev>>

----------------------------------------------------------------------------
(* Bounds of the model *)

NumTickets == 2
MaxSubtasks == 1
MaxRuns == 2
MaxTotal == 450
ShortPage == 150

(* Program constants and the rule configuration *)

limit == 200
stale_days == 7
warning_days == 9
warning_label == "stale-assigned"
done_label == "auto-unassigned"
other_label == "starter"
warning_comment == <<"inactive for ", "{stale_days}", " days, ", "{warning_days}",
                     " days left, label ", "{warning_label}">>
done_comment == <<"warned ", "{warning_days}", " days ago with ", "{warning_label}",
                  ", now ", "{done_label}">>

Keys == 1..NumTickets

Min(a, b) == IF a < b THEN a ELSE b

----------------------------------------------------------------------------
(* Python list and string helpers *)

\* x in s
In(x, s) == \E i \in 1..Len(s) : s[i] = x

\* s.count(x)
Count(x, s) == Cardinality({i \in 1..Len(s) : s[i] = x})

\* index of the first occurrence of x in s (s.index(x) + 1); 0 when absent
IndexOf(x, s) ==
    IF In(x, s) THEN CHOOSE i \in 1..Len(s) : s[i] = x /\ \A j \in 1..(i-1) : s[j] # x
    ELSE 0

\* s.remove(x) on a list that holds x: drops the first occurrence only
Remove(s, x) ==
    LET i == IndexOf(x, s)
    IN SubSeq(s, 1, i - 1) \o SubSeq(s, i + 1, Len(s))

Digits == <<"0", "1", "2", "3", "4", "5", "6", "7", "8", "9">>

\* str(n) of a day count, as format() renders it
RECURSIVE Str(_)
Str(n) == IF n < 10 THEN Digits[n + 1] ELSE Str(n \div 10) \o Digits[(n % 10) + 1]

\* template.format(**kwargs): every placeholder replaced by its value
Format(template, kwargs) ==
    [i \in 1..Len(template) |->
        IF template[i] \in DOMAIN kwargs THEN kwargs[template[i]] ELSE template[i]]

----------------------------------------------------------------------------
(* Events *)

Ev(kind, op, key, arg, ok) ==
    [kind |-> kind, op |-> op, key |-> key, arg |-> arg, ok |-> ok]

\* the result of a call: the tracker after it, what happened, did it raise
Res(j, events, raised) == [jira |-> j, events |-> events, raised |-> raised]

----------------------------------------------------------------------------
(* The tracker (jira_client): it stores what it is sent *)

Ticket(ls) ==
    [labels |-> ls, comments |-> <<>>, status |-> "Open", assignee |-> "dev",
     priority |-> "Major"]

\* an issue as a search or a fetch returns it: issue["key"], issue["fields"]["labels"]
Issue(j, k) == [key |-> k, labels |-> j[k].labels]

\* an issue outside the tickets of the model (a subtask, a row of the paging query)
Row(k) == [key |-> k, labels |-> <<>>]

NoIssue == Row(0)

Query(type, parent) == [type |-> type, parent |-> parent]

NoQuery == Query("none", 0)

\* does ticket k match the query (the tracker evaluates the JQL text)
Matches(j, q, k) ==
    CASE q.type = "everything" -> TRUE
      [] q.type = "candidates" ->
            ~In(warning_label, j[k].labels) /\ ~In(done_label, j[k].labels)
      [] q.type = "warned" -> In(warning_label, j[k].labels)
      [] OTHER -> FALSE

RECURSIVE Select(_, _, _)
Select(j, q, k) ==
    IF k > NumTickets THEN <<>>
    ELSE (IF Matches(j, q, k) THEN <<Issue(j, k)>> ELSE <<>>) \o Select(j, q, k + 1)

\* the stable, ordered result set of a query
Matching(j, q) ==
    CASE q.type = "subtasks" -> [i \in 1..subtasks[q.parent] |-> Row(NumTickets + i)]
      [] q.type = "paging" -> [i \in 1..universe |-> Row(i)]
      [] OTHER -> Select(j, q, 1)

\* jira_client.jql(jql_query, limit=limit, start=start) of a tracker that answers
\* with at most n issues: the matching issues from offset start on, and the total
jql(j, q, lim, start, n) ==
    LET m == Matching(j, q)
    IN [total |-> Len(m),
        issues |-> SubSeq(m, start + 1, Min(start + Min(n, lim), Len(m)))]

\* the page lengths the tracker may answer with
PageSizes == IF pages = "full" THEN {limit} ELSE {ShortPage, limit}

\* jira_client.get_issue(key)
get_issue(j, key) == Issue(j, key)

\* jira_client.update_issue_field(key, fields), fields = {field: value}
update_issue_field(j, key, field, value, ok) ==
    Res(IF ok THEN [j EXCEPT ![key][field] = value] ELSE j,
        <<Ev("tracker", "update_issue_field", key, <<field, value>>, ok)>>, ~ok)

\* jira_client.issue_add_comment(key, comment)
issue_add_comment(j, key, comment, ok) ==
    Res(IF ok THEN [j EXCEPT ![key].comments = Append(@, comment)] ELSE j,
        <<Ev("tracker", "issue_add_comment", key, comment, ok)>>, ~ok)

\* jira_client.set_issue_status(key, status, fields={"resolution": ...})
set_issue_status(j, key, status, resolution, ok) ==
    Res(IF ok THEN [j EXCEPT ![key].status = status] ELSE j,
        <<Ev("tracker", "set_issue_status", key, <<status, resolution>>, ok)>>, ~ok)

\* jira_client.assign_issue(key, None)
assign_issue(j, key, assignee, ok) ==
    Res(IF ok THEN [j EXCEPT ![key].assignee = assignee] ELSE j,
        <<Ev("tracker", "assign_issue", key, assignee, ok)>>, ~ok)

\* logging.info of a DRY RUN line
logging_info(j, key, action, arg) ==
    Res(j, <<Ev("log", action, key, arg, TRUE)>>, FALSE)

----------------------------------------------------------------------------
(* Paginated query engine: get_issues *)

\* while current < total
\* a loop test that lets the cursor reach the total and asks once more
get_issues_continue_inclusive(cur, tot) == cur <= tot

get_issues_continue(cur, tot) == cur < tot

\* a loop body that keeps only the last page
get_issues_step_overwrite(frame, response) ==
    [total |-> response.total, issues |-> response.issues,
     current |-> Len(response.issues)]

\* one pass of the loop body, after the response arrived
\* a loop body that advances the cursor by the page size asked for
get_issues_step_by_limit(frame, response) ==
    LET issues_ == frame.issues \o response.issues
    IN [total |-> response.total, issues |-> issues_,
        current |-> Len(frame.issues) + limit]

get_issues_step(frame, response) ==
    LET issues_ == frame.issues \o response.issues
    IN [total |-> response.total, issues |-> issues_, current |-> Len(issues_)]

\* a get_issues that starts with total = 0
EnterGetIssues_total0(q, who) ==
    /\ gq' = q
    /\ caller' = who
    /\ current' = 0
    /\ total' = 0
    /\ acc' = <<>>

\* limit = 200; current = 0; total = 1; issues = []
EnterGetIssues(q, who) ==
    /\ gq' = q
    /\ caller' = who
    /\ current' = 0
    /\ total' = 1
    /\ acc' = <<>>

\* a call may start when the one before returned; nothing in the program catches
\* an exception that leaves a call, so after "failed" the process has ended
CanStart == pc \in {"idle", "done"} /\ runs < MaxRuns

\* some ticket carries warning_label more than once
Dup(j) == \E k \in Keys : Count(warning_label, j[k].labels) > 1

StartRun(ph, q) ==
    /\ CanStart
    /\ runs' = runs + 1
    /\ phase' = ph
    /\ jql_query' = q
    /\ jira0' = jira
    /\ prev' = [phase |-> phase, query |-> jql_query, outcome |-> pc, dup |-> Dup(jira0)]
    /\ issues' = <<>>
    /\ idx' = 0
    /\ issue' = NoIssue

\* a caller calls get_issues(jql_query) directly
CallGetIssues ==
    /\ StartRun("get_issues", Query("paging", 0))
    /\ EnterGetIssues(Query("paging", 0), "get_issues")
    /\ trace' = <<>>
    /\ pc' = "get_issues"
    /\ UNCHANGED <<jira, subtasks, universe, pages, is_dry_run, rule>>

\* one iteration of the while loop: one request, which may fail
GetIssuesRequest ==
    /\ pc = "get_issues"
    /\ get_issues_continue(current, total)
    /\ \E ok \in BOOLEAN, n \in PageSizes :
          LET response == jql(jira, gq, limit, current, n)
              frame == get_issues_step([issues |-> acc], response)
          IN /\ trace' = Append(trace, Ev("tracker", "jql", 0, <<current, limit>>, ok))
             /\ IF ok
                THEN /\ total' = frame.total
                     /\ acc' = frame.issues
                     /\ current' = frame.current
                     /\ pc' = pc
                ELSE /\ pc' = "failed"
                     /\ UNCHANGED <<total, acc, current>>
    /\ UNCHANGED <<jira, subtasks, universe, pages, is_dry_run, rule, phase,
                   jql_query, gq, caller, issues, idx, issue, runs, jira0, prev>>

\* logging.info(... returned N issues); return issues
ReturnLine == Ev("info", "returned", 0, Len(acc), TRUE)

\* the loop ends and get_issues returns to its direct caller
GetIssuesReturn ==
    /\ pc = "get_issues"
    /\ caller = "get_issues"
    /\ ~get_issues_continue(current, total)
    /\ trace' = Append(trace, ReturnLine)
    /\ issues' = acc
    /\ pc' = "done"
    /\ UNCHANGED <<jira, subtasks, universe, pages, is_dry_run, rule, phase,
                   jql_query, gq, caller, current, total, acc, idx, issue, runs,
                   jira0, prev>>

----------------------------------------------------------------------------
(* Mutation gateway: every operation behind the dry-run switch *)

\* how a tracker write may end; a dry run makes none, so none can fail
WriteOutcomes == IF is_dry_run THEN {TRUE} ELSE BOOLEAN

Entered(op, key, arg) == Ev("gateway", op, key, arg, TRUE)

\* the events of r, after those in before
After(before, r) == [r EXCEPT !.events = before \o @]

\* a Python exception raised before any tracker call
Raise(j, what, key, arg) == Res(j, <<Ev("raise", what, key, arg, FALSE)>>, TRUE)

\* an add_label that sends the new label alone
add_label_alone(j, issue_, label, ok) ==
    After(<<Entered("add_label", issue_.key, label)>>,
          IF ~is_dry_run
          THEN update_issue_field(j, issue_.key, "labels", <<label>>, ok)
          ELSE logging_info(j, issue_.key, "Adding label", label))

\* an add_label whose dry run says nothing
add_label_silent(j, issue_, label, ok) ==
    LET labels == issue_.labels \o <<label>>
        key == issue_.key
    IN After(<<Entered("add_label", key, label)>>,
             IF ~is_dry_run
             THEN update_issue_field(j, key, "labels", labels, ok)
             ELSE Res(j, <<>>, FALSE))

add_label(j, issue_, label, ok) ==
    LET labels == issue_.labels \o <<label>>
        key == issue_.key
    IN After(<<Entered("add_label", key, label)>>,
             IF ~is_dry_run
             THEN update_issue_field(j, key, "labels", labels, ok)
             ELSE logging_info(j, key, "Adding label", label))

\* a replace_label that adds the new label and leaves the old one
replace_label_keep_old(j, issue_, old_label, new_label, ok) ==
    LET appended == issue_.labels \o <<new_label>>
        key == issue_.key
    IN After(<<Entered("replace_label", key, <<old_label, new_label>>)>>,
             IF ~In(old_label, appended)
             THEN Raise(j, "ValueError", key, old_label)
             ELSE IF ~is_dry_run
             THEN update_issue_field(j, key, "labels", appended, ok)
             ELSE logging_info(j, key, "Replace label", <<old_label, new_label>>))

\* a replace_label that removes the old label and forgets the new one
replace_label_no_append(j, issue_, old_label, new_label, ok) ==
    LET key == issue_.key
    IN After(<<Entered("replace_label", key, <<old_label, new_label>>)>>,
             IF ~In(old_label, issue_.labels)
             THEN Raise(j, "ValueError", key, old_label)
             ELSE IF ~is_dry_run
             THEN update_issue_field(j, key, "labels", Remove(issue_.labels, old_label), ok)
             ELSE logging_info(j, key, "Replace label", <<old_label, new_label>>))

replace_label(j, issue_, old_label, new_label, ok) ==
    LET appended == issue_.labels \o <<new_label>>
        key == issue_.key
    IN After(<<Entered("replace_label", key, <<old_label, new_label>>)>>,
             IF ~In(old_label, appended)
             THEN Raise(j, "ValueError", key, old_label)
             ELSE IF ~is_dry_run
             THEN update_issue_field(j, key, "labels", Remove(appended, old_label), ok)
             ELSE logging_info(j, key, "Replace label", <<old_label, new_label>>))

\* an add_comment that forgets the dry-run switch
add_comment_always(j, key, comment, ok) ==
    After(<<Entered("add_comment", key, comment)>>, issue_add_comment(j, key, comment, ok))

add_comment(j, key, comment, ok) ==
    After(<<Entered("add_comment", key, comment)>>,
          IF ~is_dry_run
          THEN issue_add_comment(j, key, comment, ok)
          ELSE logging_info(j, key, "Adding comment", comment))

close_issue(j, key, ok) ==
    After(<<Entered("close_issue", key, <<>>)>>,
          IF ~is_dry_run
          THEN set_issue_status(j, key, "Closed", "Auto Closed", ok)
          ELSE logging_info(j, key, "Closing", <<>>))

unassign(j, key, ok) ==
    After(<<Entered("unassign", key, <<>>)>>,
          IF ~is_dry_run
          THEN assign_issue(j, key, "None", ok)
          ELSE logging_info(j, key, "Unassigning", <<>>))

set_priority(j, key, priority, ok) ==
    After(<<Entered("set_priority", key, priority)>>,
          IF ~is_dry_run
          THEN update_issue_field(j, key, "priority", priority, ok)
          ELSE logging_info(j, key, "Setting to", priority))

\* the concrete rules: what each one's handle_stale_ticket(key) does
Rules == {"close", "unassign", "priority"}

handle_stale_ticket(j, key, ok) ==
    After(<<Ev("hook", "handle_stale_ticket", key, rule, TRUE)>>,
          CASE rule = "close" -> close_issue(j, key, ok)
            [] rule = "unassign" -> unassign(j, key, ok)
            [] OTHER -> set_priority(j, key, "Minor", ok))

\* warning_comment.format(stale_days=..., warning_days=..., warning_label=...)
WarningComment ==
    Format(warning_comment,
           [x \in {"{stale_days}", "{warning_days}", "{warning_label}"} |->
               CASE x = "{stale_days}" -> Str(stale_days)
                 [] x = "{warning_days}" -> Str(warning_days)
                 [] OTHER -> warning_label])

\* done_comment.format(warning_days=..., warning_label=..., done_label=...)
DoneComment ==
    Format(done_comment,
           [x \in {"{warning_days}", "{warning_label}", "{done_label}"} |->
               CASE x = "{warning_days}" -> Str(warning_days)
                 [] x = "{warning_label}" -> warning_label
                 [] OTHER -> done_label])

----------------------------------------------------------------------------
(* The gateway operations, called on their own *)

LabelArgs == {warning_label, done_label}

\* a gateway call from outside the phases: one call, which returns or raises
GatewayCall(r) ==
    /\ StartRun("gateway", NoQuery)
    /\ jira' = r.jira
    /\ trace' = r.events
    /\ pc' = IF r.raised THEN "failed" ELSE "done"
    /\ UNCHANGED <<subtasks, universe, pages, is_dry_run, rule, gq, caller,
                   current, total, acc>>

AddLabel ==
    \E k \in Keys, l \in LabelArgs, ok \in WriteOutcomes :
        GatewayCall(add_label(jira, Issue(jira, k), l, ok))

ReplaceLabel ==
    \E k \in Keys, old \in LabelArgs, new \in LabelArgs, ok \in WriteOutcomes :
        GatewayCall(replace_label(jira, Issue(jira, k), old, new, ok))

AddComment ==
    \E k \in Keys, ok \in WriteOutcomes :
        GatewayCall(add_comment(jira, k, WarningComment, ok))

CloseIssue ==
    \E k \in Keys, ok \in WriteOutcomes :
        GatewayCall(close_issue(jira, k, ok))

Unassign ==
    \E k \in Keys, ok \in WriteOutcomes :
        GatewayCall(unassign(jira, k, ok))

SetPriority ==
    \E k \in Keys, ok \in WriteOutcomes :
        GatewayCall(set_priority(jira, k, "Minor", ok))

----------------------------------------------------------------------------
(* Activity oracle and the two phases *)

\* an oracle that needs two subtasks
has_recently_updated_subtask_two(found) == Len(found) > 1

\* has_recently_updated_subtask: return len(issues) > 0
\* an oracle that answers the opposite
has_recently_updated_subtask_inverted(found) == Len(found) = 0

has_recently_updated_subtask(found) == Len(found) > 0

\* the queries a concrete rule may hand to the phases
CandidateQueries == {Query("candidates", 0), Query("everything", 0)}
WarnedQueries == {Query("warned", 0), Query("everything", 0)}

\* for issue in issues: the loop takes element i, or ends
LoopTo(i, list, head) ==
    /\ idx' = i
    /\ IF i <= Len(list)
       THEN /\ issue' = list[i]
            /\ pc' = head
       ELSE /\ issue' = NoIssue
            /\ pc' = "done"

\* a key taken once, from the first ticket of the list
Key_of_first == issues[1].key

Key == issue.key

\* an exception that is swallowed: the loop goes on with the next ticket
Abort_swallow ==
    LoopTo(idx + 1, issues, IF phase = "mark" THEN "get_issue" ELSE "add_comment")

\* a step that raised: the exception leaves the phase
Abort == pc' = "failed" /\ UNCHANGED <<idx, issue>>

\* mark_stale_tickets_stale(jql_query) is called
StartMark ==
    \E q \in CandidateQueries :
        /\ StartRun("mark", q)
        /\ EnterGetIssues(q, "mark")
        /\ trace' = <<>>
        /\ pc' = "get_issues"
        /\ UNCHANGED <<jira, subtasks, universe, pages, is_dry_run, rule>>

\* issues = self.get_issues(jql_query) returned; the for loop starts
MarkGotIssues ==
    /\ pc = "get_issues"
    /\ caller = "mark"
    /\ ~get_issues_continue(current, total)
    /\ trace' = Append(trace, ReturnLine)
    /\ issues' = acc
    /\ LoopTo(1, acc, "get_issue")
    /\ UNCHANGED <<jira, subtasks, universe, pages, is_dry_run, rule, phase,
                   jql_query, gq, caller, current, total, acc, runs, jira0, prev>>

\* a loop body that works on the ticket as the search returned it
MarkFetch_no_refetch ==
    /\ pc = "get_issue"
    /\ \E ok \in BOOLEAN :
          /\ trace' = Append(trace, Ev("tracker", "get_issue", Key, <<>>, ok))
          /\ IF ok
             THEN /\ issue' = issues[idx]
                  /\ EnterGetIssues(Query("subtasks", Key), "oracle")
                  /\ pc' = "get_issues"
                  /\ idx' = idx
             ELSE /\ Abort
                  /\ UNCHANGED <<gq, caller, current, total, acc>>
    /\ UNCHANGED <<jira, subtasks, universe, pages, is_dry_run, rule, phase,
                   jql_query, issues, runs, jira0, prev>>

\* issue = self.jira_client.get_issue(key), then has_recently_updated_subtask
\* enters get_issues with the subtask query
MarkFetch ==
    /\ pc = "get_issue"
    /\ \E ok \in BOOLEAN :
          /\ trace' = Append(trace, Ev("tracker", "get_issue", Key, <<>>, ok))
          /\ IF ok
             THEN /\ issue' = get_issue(jira, Key)
                  /\ EnterGetIssues(Query("subtasks", Key), "oracle")
                  /\ pc' = "get_issues"
                  /\ idx' = idx
             ELSE /\ Abort
                  /\ UNCHANGED <<gq, caller, current, total, acc>>
    /\ UNCHANGED <<jira, subtasks, universe, pages, is_dry_run, rule, phase,
                   jql_query, issues, runs, jira0, prev>>

\* the oracle's get_issues returned: warn the ticket, or skip it
OracleReturned ==
    /\ pc = "get_issues"
    /\ caller = "oracle"
    /\ ~get_issues_continue(current, total)
    /\ IF ~has_recently_updated_subtask(acc)
       THEN /\ trace' = trace \o <<ReturnLine, Ev("info", "marked stale", Key, <<>>, TRUE)>>
            /\ pc' = "add_label"
            /\ UNCHANGED <<idx, issue>>
       ELSE /\ trace' = trace \o <<ReturnLine, Ev("info", "ignoring", Key, <<>>, TRUE)>>
            /\ LoopTo(idx + 1, issues, "get_issue")
    /\ UNCHANGED <<jira, subtasks, universe, pages, is_dry_run, rule, phase,
                   jql_query, gq, caller, current, total, acc, issues, runs,
                   jira0, prev>>

\* a loop body that stops after the label
MarkAddLabel_no_comment ==
    /\ pc = "add_label"
    /\ \E ok \in WriteOutcomes :
          LET r == add_label(jira, issue, warning_label, ok)
          IN /\ jira' = r.jira
             /\ trace' = trace \o r.events
             /\ IF r.raised THEN Abort ELSE LoopTo(idx + 1, issues, "get_issue")
    /\ UNCHANGED <<subtasks, universe, pages, is_dry_run, rule, phase, jql_query,
                   gq, caller, current, total, acc, issues, runs, jira0, prev>>

\* self.add_label(issue, self.warning_label)
MarkAddLabel ==
    /\ pc = "add_label"
    /\ \E ok \in WriteOutcomes :
          LET r == add_label(jira, issue, warning_label, ok)
          IN /\ jira' = r.jira
             /\ trace' = trace \o r.events
             /\ IF r.raised THEN Abort
                ELSE pc' = "add_comment" /\ UNCHANGED <<idx, issue>>
    /\ UNCHANGED <<subtasks, universe, pages, is_dry_run, rule, phase, jql_query,
                   gq, caller, current, total, acc, issues, runs, jira0, prev>>

\* self.add_comment(key, formatted_comment), the last statement of the loop body
MarkAddComment ==
    /\ pc = "add_comment"
    /\ phase = "mark"
    /\ \E ok \in WriteOutcomes :
          LET r == add_comment(jira, Key, WarningComment, ok)
          IN /\ jira' = r.jira
             /\ trace' = trace \o r.events
             /\ IF r.raised THEN Abort ELSE LoopTo(idx + 1, issues, "get_issue")
    /\ UNCHANGED <<subtasks, universe, pages, is_dry_run, rule, phase, jql_query,
                   gq, caller, current, total, acc, issues, runs, jira0, prev>>

\* handle_tickets_marked_stale(jql_query) is called
StartHandle ==
    \E q \in WarnedQueries :
        /\ StartRun("handle", q)
        /\ EnterGetIssues(q, "handle")
        /\ trace' = <<>>
        /\ pc' = "get_issues"
        /\ UNCHANGED <<jira, subtasks, universe, pages, is_dry_run, rule>>

\* a loop body that starts at the label replacement
HandleGotIssues_no_comment ==
    /\ pc = "get_issues"
    /\ caller = "handle"
    /\ ~get_issues_continue(current, total)
    /\ trace' = Append(trace, ReturnLine)
    /\ issues' = acc
    /\ LoopTo(1, acc, "replace_label")
    /\ UNCHANGED <<jira, subtasks, universe, pages, is_dry_run, rule, phase,
                   jql_query, gq, caller, current, total, acc, runs, jira0, prev>>

\* issues = self.get_issues(jql_query) returned; the for loop starts
HandleGotIssues ==
    /\ pc = "get_issues"
    /\ caller = "handle"
    /\ ~get_issues_continue(current, total)
    /\ trace' = Append(trace, ReturnLine)
    /\ issues' = acc
    /\ LoopTo(1, acc, "add_comment")
    /\ UNCHANGED <<jira, subtasks, universe, pages, is_dry_run, rule, phase,
                   jql_query, gq, caller, current, total, acc, runs, jira0, prev>>

\* self.add_comment(key, formatted_comment)
HandleAddComment ==
    /\ pc = "add_comment"
    /\ phase = "handle"
    /\ \E ok \in WriteOutcomes :
          LET r == add_comment(jira, Key, DoneComment, ok)
          IN /\ jira' = r.jira
             /\ trace' = trace \o r.events
             /\ IF r.raised THEN Abort
                ELSE pc' = "replace_label" /\ UNCHANGED <<idx, issue>>
    /\ UNCHANGED <<subtasks, universe, pages, is_dry_run, rule, phase, jql_query,
                   gq, caller, current, total, acc, issues, runs, jira0, prev>>

\* self.replace_label(issue, self.warning_label, self.done_label)
HandleReplaceLabel ==
    /\ pc = "replace_label"
    /\ \E ok \in WriteOutcomes :
          LET r == replace_label(jira, issue, warning_label, done_label, ok)
          IN /\ jira' = r.jira
             /\ trace' = trace \o r.events
             /\ IF r.raised THEN Abort
                ELSE pc' = "hook" /\ UNCHANGED <<idx, issue>>
    /\ UNCHANGED <<subtasks, universe, pages, is_dry_run, rule, phase, jql_query,
                   gq, caller, current, total, acc, issues, runs, jira0, prev>>

\* self.handle_stale_ticket(key), the last statement of the loop body
HandleHook ==
    /\ pc = "hook"
    /\ \E ok \in WriteOutcomes :
          LET r == handle_stale_ticket(jira, Key, ok)
          IN /\ jira' = r.jira
             /\ trace' = trace \o r.events
             /\ IF r.raised THEN Abort ELSE LoopTo(idx + 1, issues, "add_comment")
    /\ UNCHANGED <<subtasks, universe, pages, is_dry_run, rule, phase, jql_query,
                   gq, caller, current, total, acc, issues, runs, jira0, prev>>

----------------------------------------------------------------------------
(* Initial states *)

InitRun ==
    /\ pc = "idle"
    /\ phase = "none"
    /\ jql_query = NoQuery
    /\ gq = NoQuery
    /\ caller = "none"
    /\ current = 0
    /\ total = 0
    /\ acc = <<>>
    /\ issues = <<>>
    /\ idx = 0
    /\ issue = NoIssue
    /\ trace = <<>>
    /\ runs = 0
    /\ jira0 = jira
    /\ prev = [phase |-> "none", query |-> NoQuery, outcome |-> "idle", dup |-> FALSE]

\* a tracker with a result set of any size up to MaxTotal
InitPaging ==
    /\ jira = [k \in Keys |-> Ticket(<<>>)]
    /\ subtasks = [k \in Keys |-> 0]
    /\ universe \in 0..MaxTotal
    /\ pages \in {"full", "short"}
    /\ is_dry_run = FALSE
    /\ rule = "close"
    /\ InitRun

\* the label lists a ticket may start with; add_label does not filter duplicates,
\* so a label may occur twice
InitLabels ==
    {<<other_label>>, <<other_label, warning_label>>,
     <<warning_label, other_label, warning_label>>}

\* a rule instance over a tracker with NumTickets tickets
Init ==
    /\ jira \in [Keys -> {Ticket(ls) : ls \in InitLabels}]
    /\ subtasks \in [Keys -> {0, MaxSubtasks}]
    /\ universe = 0
    /\ pages = "full"
    /\ is_dry_run \in BOOLEAN
    /\ rule \in Rules
    /\ InitRun

\* the same, constructed with is_dry_run = True
InitDryRun == Init /\ is_dry_run

Mark ==
    \/ StartMark
    \/ MarkGotIssues
    \/ MarkFetch
    \/ OracleReturned
    \/ MarkAddLabel
    \/ MarkAddComment

Handle ==
    \/ StartHandle
    \/ HandleGotIssues
    \/ HandleAddComment
    \/ HandleReplaceLabel
    \/ HandleHook

Gateway ==
    \/ AddLabel
    \/ ReplaceLabel
    \/ AddComment
    \/ CloseIssue
    \/ Unassign
    \/ SetPriority

\* the phases of a rule, run one after another
Next == GetIssuesRequest \/ Mark \/ Handle

Spec == Init /\ [][Next]_vars

\* the gateway operations alone, which read neither the subtasks nor the rule
InitGateway == Init /\ subtasks = [k \in Keys |-> 0] /\ rule = "close"

SpecGateway == InitGateway /\ [][Gateway]_vars

\* everything a dry-run instance can be asked to do
NextAll == GetIssuesRequest \/ Mark \/ Handle \/ Gateway

SpecDryRun == InitDryRun /\ [][NextAll]_vars

NextPaging == CallGetIssues \/ GetIssuesRequest \/ GetIssuesReturn

SpecPaging == InitPaging /\ [][NextPaging]_vars

\* the bot is started again after an exception ended it: a new rule object
\* over the tracker as the failed run left it
Restart ==
    /\ pc = "failed"
    /\ pc' = "idle"
    /\ UNCHANGED <<jira, subtasks, universe, pages, is_dry_run, rule, phase,
                   jql_query, gq, caller, current, total, acc, issues, idx, issue,
                   trace, runs, jira0, prev>>

\* a Phase 1 call whose query also selects tickets that carry warning_label
StartMarkScoped_unscoped == StartMark /\ jql_query' = Query("everything", 0)

\* mark_stale_tickets_stale is called with a candidate query that excludes
\* tickets carrying warning_label
StartMarkScoped == StartMark /\ jql_query' = Query("candidates", 0)

InitScoped == Init /\ ~is_dry_run /\ rule = "close"

NextScoped ==
    \/ StartMarkScoped
    \/ GetIssuesRequest
    \/ MarkGotIssues
    \/ MarkFetch
    \/ OracleReturned
    \/ MarkAddLabel
    \/ MarkAddComment
    \/ Restart

\* non-dry-run Phase 1 with the scoped query, run again and again
SpecScoped == InitScoped /\ [][NextScoped]_vars

\* a label somebody else puts on a ticket
edit_label == "triaged"

\* what another user of the tracker may do to a ticket's labels
Edited(ls) == {ls \o <<edit_label>>, Remove(ls, other_label)}

\* after the candidate query has returned, before a ticket is fetched or
\* between its fetch and its label write, another user of the tracker changes
\* a ticket's labels (once per run)
ExternalEdit ==
    /\ phase = "mark"
    /\ pc \in {"get_issue", "add_label"}
    /\ \A i \in 1..Len(trace) : trace[i].kind # "external"
    /\ \E k \in Keys :
          \E ls \in Edited(jira[k].labels) :
              /\ jira' = [jira EXCEPT ![k].labels = ls]
              /\ trace' = Append(trace, Ev("external", "edit", k, ls, TRUE))
    /\ UNCHANGED <<subtasks, universe, pages, is_dry_run, rule, pc, phase,
                   jql_query, gq, caller, current, total, acc, issues, idx, issue,
                   runs, jira0, prev>>

\* the first call of mark_stale_tickets_stale
StartMarkOnce == StartMark /\ runs = 0

NextEdits ==
    \/ StartMarkOnce
    \/ GetIssuesRequest
    \/ MarkGotIssues
    \/ MarkFetch
    \/ OracleReturned
    \/ MarkAddLabel
    \/ MarkAddComment
    \/ ExternalEdit

\* non-dry-run Phase 1 against a tracker that others use at the same time
SpecEdits == InitScoped /\ [][NextEdits]_vars

\* get_issues runs in one thread: a loop iteration that can run does run, and
\* a finished loop returns; nothing obliges a caller to call it
SpecPagingFair ==
    /\ InitPaging
    /\ [][NextPaging]_vars
    /\ WF_vars(GetIssuesRequest)
    /\ WF_vars(GetIssuesReturn)

----------------------------------------------------------------------------
(* What the running call did, read off its trace *)

MutatingMethods ==
    {"update_issue_field", "issue_add_comment", "set_issue_status", "assign_issue"}

IsMutation(e) == e.kind = "tracker" /\ e.op \in MutatingMethods

\* the search requests made so far: <<start, limit>> of each
Requests ==
    LET js == SelectSeq(trace, LAMBDA e : e.kind = "tracker" /\ e.op = "jql")
    IN [i \in 1..Len(js) |-> js[i].arg]

Max(a, b) == IF a > b THEN a ELSE b

\* ceil(n / 200)
Pages200(n) == (n + 199) \div 200

----------------------------------------------------------------------------
(* C1. Pagination completeness: when the tracker answers with consistent    *)
(* pages of a stable result set of T tickets, every request of get_issues   *)
(* has limit 200, the i-th request is at offset 200 * (i - 1), and          *)
(* get_issues returns exactly the T matching tickets, each once, after      *)
(* max(1, ceil(T / 200)) requests.                                          *)
C1_PaginationComplete ==
    (phase = "get_issues" /\ pages = "full") =>
        /\ \A i \in 1..Len(Requests) : Requests[i] = <<200 * (i - 1), 200>>
        /\ pc = "done" =>
              /\ Len(issues) = universe
              /\ \A i \in 1..universe : issues[i] = Row(i)
              /\ Len(Requests) = Max(1, Pages200(universe))

\* T = 450 was retrieved with three requests
C1_Witness ==
    /\ phase = "get_issues" /\ pages = "full" /\ pc = "done"
    /\ universe = 450
    /\ Requests = <<<<0, 200>>, <<200, 200>>, <<400, 200>>>>
    /\ Len(issues) = 450

----------------------------------------------------------------------------
(* More of what the running call did *)

\* the keys of the tickets the query of the running call selected at its start
Selected == {Matching(jira0, jql_query)[i].key : i \in 1..Len(Matching(jira0, jql_query))}

\* the mutating tracker calls made for ticket k
MutationsOf(k) == SelectSeq(trace, LAMBDA e : IsMutation(e) /\ e.key = k)

\* everything but reads that the call did for ticket k
TouchesOf(k) ==
    SelectSeq(trace, LAMBDA e : e.key = k /\ e.kind \in {"gateway", "log", "hook", "raise"})

\* the statements of the loop body of Phase 2, as issued
HandleSteps ==
    SelectSeq(trace, LAMBDA e : \/ e.kind = "hook"
                                \/ /\ e.kind = "gateway"
                                   /\ e.op \in {"add_comment", "replace_label"})

HandleOps == <<"add_comment", "replace_label", "handle_stale_ticket">>

DoneText == <<"warned ", "9", " days ago with ", "stale-assigned", ", now ", "auto-unassigned">>

WarningText == <<"inactive for ", "7", " days, ", "9", " days left, label ", "stale-assigned">>

----------------------------------------------------------------------------
(* C2. Phase 2 per-ticket ordering: the statements handle_tickets_marked_   *)
(* stale issues are, ticket by ticket in the order of the returned list,    *)
(* add_comment(key, done comment), replace_label(warning_label ->           *)
(* done_label), handle_stale_ticket(key); a run that ends without failure   *)
(* has issued all three for every returned ticket, so the hook ran exactly  *)
(* once per ticket, after that ticket's comment and label replacement.      *)
C2_HandleOrdering ==
    phase = "handle" =>
        /\ Len(HandleSteps) <= 3 * Len(issues)
        /\ \A n \in 1..Len(HandleSteps) :
              /\ HandleSteps[n].op = HandleOps[((n - 1) % 3) + 1]
              /\ HandleSteps[n].key = issues[((n - 1) \div 3) + 1].key
              /\ HandleSteps[n].op = "add_comment" => HandleSteps[n].arg = DoneText
              /\ HandleSteps[n].op = "replace_label" =>
                    HandleSteps[n].arg = <<"stale-assigned", "auto-unassigned">>
        /\ pc = "done" => Len(HandleSteps) = 3 * Len(issues)

\* Phase 2 returned after processing two tickets
C2_Witness ==
    /\ phase = "handle" /\ pc = "done"
    /\ Len(issues) = 2
    /\ Len(HandleSteps) = 6

(* C3. Phase 1 warn transition: when a non-dry-run mark_stale_tickets_stale *)
(* returns, every candidate without a recently updated subtask received     *)
(* exactly two mutations: its labels set to the fetched labels plus         *)
(* warning_label, then one warning comment with the interpolated values;    *)
(* nothing else of the ticket changed.                                      *)
C3_MarkWarns ==
    (phase = "mark" /\ ~is_dry_run) =>
        \A k \in Selected : subtasks[k] = 0 =>
            /\ Len(MutationsOf(k)) <= 2
            /\ Len(MutationsOf(k)) >= 1 =>
                  /\ MutationsOf(k)[1].op = "update_issue_field"
                  /\ MutationsOf(k)[1].arg =
                        <<"labels", jira0[k].labels \o <<"stale-assigned">>>>
            /\ Len(MutationsOf(k)) = 2 =>
                  /\ MutationsOf(k)[2].op = "issue_add_comment"
                  /\ MutationsOf(k)[2].arg = WarningText
            /\ pc = "done" =>
                  /\ Len(MutationsOf(k)) = 2
                  /\ jira[k] = [jira0[k] EXCEPT
                                   !.labels = @ \o <<"stale-assigned">>,
                                   !.comments = Append(@, WarningText)]

\* Phase 1 returned and warned a candidate
C3_Witness ==
    /\ phase = "mark" /\ ~is_dry_run /\ pc = "done"
    /\ \E k \in Selected :
          /\ subtasks[k] = 0
          /\ Len(MutationsOf(k)) = 2
          /\ jira[k].labels = jira0[k].labels \o <<"stale-assigned">>

(* C4. Phase 1 skip: a candidate with a recently updated subtask gets no    *)
(* gateway call, no mutation and no dry-run line in mark_stale_tickets_     *)
(* stale, so the tracker holds it as it was when the run started.           *)
C4_MarkSkips ==
    phase = "mark" =>
        \A k \in Selected : subtasks[k] > 0 =>
            /\ MutationsOf(k) = <<>>
            /\ TouchesOf(k) = <<>>
            /\ jira[k] = jira0[k]

\* Phase 1 returned having skipped one candidate and warned another
C4_Witness ==
    /\ phase = "mark" /\ ~is_dry_run /\ pc = "done"
    /\ \E k \in Selected : subtasks[k] > 0 /\ jira[k] = jira0[k]
    /\ \E k \in Selected : subtasks[k] = 0 /\ jira[k] # jira0[k]

\* the DRY RUN line each gateway operation writes
DryRunLine(op) ==
    CASE op = "add_label" -> "Adding label"
      [] op = "replace_label" -> "Replace label"
      [] op = "add_comment" -> "Adding comment"
      [] op = "close_issue" -> "Closing"
      [] op = "unassign" -> "Unassigning"
      [] OTHER -> "Setting to"

CountKind(kind) == Len(SelectSeq(trace, LAMBDA e : e.kind = kind))

(* C5. Dry-run non-mutation: an instance constructed with is_dry_run true   *)
(* never calls update_issue_field, issue_add_comment, set_issue_status or   *)
(* assign_issue, whatever gateway operations and phases are run, so the     *)
(* tracker stays as it was; every gateway operation that returns wrote      *)
(* exactly one log line, for its ticket and its action.                     *)
C5_DryRunNoMutation ==
    is_dry_run =>
        /\ \A i \in 1..Len(trace) : ~IsMutation(trace[i])
        /\ jira = jira0
        /\ \A i \in 1..Len(trace) : trace[i].kind = "gateway" =>
              /\ i < Len(trace)
              /\ \/ trace[i + 1].kind = "raise"
                 \/ /\ trace[i + 1].kind = "log"
                    /\ trace[i + 1].key = trace[i].key
                    /\ trace[i + 1].op = DryRunLine(trace[i].op)
        /\ CountKind("log") = CountKind("gateway") - CountKind("raise")

\* a dry run of Phase 2 returned after three gateway calls and the hook for a ticket
C5_Witness ==
    /\ is_dry_run /\ phase = "handle" /\ pc = "done"
    /\ Len(issues) >= 1
    /\ CountKind("hook") >= 1
    /\ CountKind("log") = 3 * Len(issues)

----------------------------------------------------------------------------
(* C6. Replace-label failure on absent label: a replace_label(ticket,       *)
(* old_label, new_label) whose old_label is not among the ticket's labels   *)
(* raises, calls no tracker method and leaves the tracker as it was, in     *)
(* dry-run or not.                                                          *)
C6_ReplaceAbsentFails ==
    (/\ phase = "gateway"
     /\ Len(trace) > 0
     /\ trace[1].op = "replace_label"
     /\ ~In(trace[1].arg[1], jira0[trace[1].key].labels)) =>
        /\ pc = "failed"
        /\ \E i \in 1..Len(trace) : trace[i].kind = "raise"
        /\ \A i \in 1..Len(trace) : trace[i].kind \notin {"tracker", "log"}
        /\ jira = jira0

----------------------------------------------------------------------------
\* a successful call of tracker method m for ticket k
Wrote(k, m) ==
    \E i \in 1..Len(trace) :
        trace[i].kind = "tracker" /\ trace[i].op = m /\ trace[i].key = k /\ trace[i].ok

IsLabelsWrite(e) ==
    e.kind = "tracker" /\ e.op = "update_issue_field" /\ e.arg[1] = "labels"

\* the successful label writes for ticket k
LabelWrites(k) == SelectSeq(trace, LAMBDA e : IsLabelsWrite(e) /\ e.key = k /\ e.ok)

\* handle_stale_ticket was invoked for ticket k
Hooked(k) == \E i \in 1..Len(trace) : trace[i].kind = "hook" /\ trace[i].key = k

\* ticket k received only part of its transition
HalfApplied(k) ==
    \/ /\ phase = "handle"
       /\ Wrote(k, "issue_add_comment")
       /\ ~(LabelWrites(k) # <<>> /\ In(done_label, jira[k].labels) /\ Hooked(k))
    \/ /\ phase = "mark"
       /\ LabelWrites(k) # <<>>
       /\ ~Wrote(k, "issue_add_comment")

(* C7 as stated. At the end of every run of Phase 1 or Phase 2, a run       *)
(* aborted by a failing tracker call included, no ticket has received only  *)
(* part of its transition.                                                  *)
C7_NeverHalfApplied ==
    (phase \in {"mark", "handle"} /\ pc \in {"done", "failed"}) =>
        \A k \in Keys : ~HalfApplied(k)

(* C7 as amended. At the end of every run of Phase 1 or Phase 2 that        *)
(* returns without a failure, no ticket has received only part of its       *)
(* transition: in Phase 2 a ticket with the done comment also has its       *)
(* labels replaced and its hook invoked, in Phase 1 a ticket with           *)
(* warning_label added also has the warning comment.                        *)
C7_ReturnedRunsWhole ==
    (phase \in {"mark", "handle"} /\ pc = "done") =>
        \A k \in Keys : ~HalfApplied(k)

\* a non-dry-run Phase 1 returned after warning a ticket
C7_Witness ==
    /\ phase = "mark" /\ pc = "done" /\ ~is_dry_run
    /\ \E k \in Keys : LabelWrites(k) # <<>> /\ Wrote(k, "issue_add_comment")

----------------------------------------------------------------------------
Last == trace[Len(trace)]

\* the events of the run that name ticket k
EventsOf(k) == SelectSeq(trace, LAMBDA e : e.key = k)

\* the comments ticket k received in the run
CommentsWritten(k) ==
    SelectSeq(trace, LAMBDA e : e.kind = "tracker" /\ e.op = "issue_add_comment"
                                /\ e.key = k /\ e.ok)

\* the failure is that of the label replacement of Phase 2
ReplaceFailed ==
    /\ phase = "handle" /\ pc = "failed"
    /\ \/ Last.kind = "raise"
       \/ IsLabelsWrite(Last)

(* C8. Failure aborts the phase without rollback: a failing search, fetch   *)
(* or mutation call is the last event of its run and leaves the phase       *)
(* failed; no event names a ticket after the one being processed; the       *)
(* tracker holds every mutation that succeeded before the failure; when     *)
(* the label replacement of Phase 2 fails after the comment, the ticket     *)
(* has the done comment (a dry run only logged it), the labels it had      *)
(* (warning_label among them when the tracker call failed), and no hook     *)
(* invocation.                                                              *)
C8_FailureAborts ==
    phase \in {"mark", "handle"} =>
        /\ \A i \in 1..(Len(trace) - 1) : trace[i].ok
        /\ pc = "failed" <=> (Len(trace) > 0 /\ ~Last.ok)
        /\ \A k \in Keys : EventsOf(k) # <<>> =>
              \E n \in 1..Min(idx, Len(issues)) : issues[n].key = k
        /\ \A k \in Keys :
              /\ jira[k].comments =
                    jira0[k].comments \o [i \in 1..Len(CommentsWritten(k)) |->
                                              CommentsWritten(k)[i].arg]
              /\ jira[k].labels =
                    IF LabelWrites(k) = <<>> THEN jira0[k].labels
                    ELSE LabelWrites(k)[Len(LabelWrites(k))].arg[2]
        /\ ReplaceFailed =>
              /\ Last.key = issues[idx].key
              /\ jira[Last.key].comments =
                    IF is_dry_run THEN jira0[Last.key].comments
                    ELSE Append(jira0[Last.key].comments, DoneText)
              /\ jira[Last.key].labels = jira0[Last.key].labels
              /\ IsLabelsWrite(Last) => In("stale-assigned", jira[Last.key].labels)
              /\ ~Hooked(Last.key)

\* Phase 2 failed replacing the label of the first of two tickets, after the comment
C8_Witness ==
    /\ ReplaceFailed /\ ~is_dry_run
    /\ IsLabelsWrite(Last)
    /\ Len(issues) = 2 /\ idx = 1
    /\ Wrote(issues[1].key, "issue_add_comment")
    /\ EventsOf(issues[2].key) = <<>>

----------------------------------------------------------------------------
\* the running call is a non-dry-run Phase 2 with the query that selects exactly
\* the tickets carrying warning_label
ScopedHandle == phase = "handle" /\ ~is_dry_run /\ jql_query = Query("warned", 0)

\* ... and the call before it was the same, and returned
ScopedHandleAgain ==
    /\ ScopedHandle
    /\ prev.phase = "handle" /\ prev.query = Query("warned", 0) /\ prev.outcome = "done"

Processed == {issues[i].key : i \in 1..Len(issues)}

Idempotent ==
    /\ (ScopedHandle /\ pc = "done") =>
          \A k \in Processed :
              /\ In(done_label, jira[k].labels)
              /\ ~Matches(jira, jql_query, k)
    /\ ScopedHandleAgain =>
          \A i \in 1..Len(trace) : ~IsMutation(trace[i]) /\ trace[i].kind # "hook"

(* C9 as stated. For every tracker state, once a non-dry-run Phase 2 with   *)
(* the scoped warned query has returned, every ticket it processed bears    *)
(* done_label and is no longer selected, and running Phase 2 again with     *)
(* the same query makes no mutation and invokes no hook.                    *)
C9_HandleIdempotent == Idempotent

(* C9 as amended. The same, for every tracker state in which no ticket      *)
(* carries warning_label more than once (and a done_label that differs      *)
(* from warning_label): replace_label removes one occurrence only.          *)
C9_HandleIdempotentNoDup ==
    /\ (ScopedHandle /\ pc = "done" /\ ~Dup(jira0)) =>
          \A k \in Processed :
              /\ In(done_label, jira[k].labels)
              /\ ~Matches(jira, jql_query, k)
    /\ (ScopedHandleAgain /\ ~prev.dup) =>
          \A i \in 1..Len(trace) : ~IsMutation(trace[i]) /\ trace[i].kind # "hook"

\* a second scoped Phase 2 returned, after a first one that processed a ticket
C9_Witness ==
    /\ ScopedHandleAgain /\ ~prev.dup /\ pc = "done"
    /\ \E k \in Keys : In(done_label, jira0[k].labels)
    /\ issues = <<>>

----------------------------------------------------------------------------
\* the hook is being invoked, or was invoked, for ticket k
HookedOrAt(k) == Hooked(k) \/ (pc = "hook" /\ issue.key = k)

LabelsReplaced(k) ==
    /\ In(done_label, jira[k].labels)
    /\ Count(warning_label, jira[k].labels) = Count(warning_label, jira0[k].labels) - 1

(* C10 as stated. In every run of Phase 2, whenever handle_stale_ticket(key) *)
(* is invoked, the tracker's labels of that ticket contain done_label and   *)
(* no longer the occurrence of warning_label that was replaced.             *)
C10_HookPrecondition ==
    phase = "handle" => \A k \in Keys : HookedOrAt(k) => LabelsReplaced(k)

(* C10 as amended. The same in every non-dry-run run of Phase 2; a dry run  *)
(* invokes the hook with the tracker's labels untouched.                    *)
C10_HookPreconditionReal ==
    (phase = "handle" /\ ~is_dry_run) =>
        \A k \in Keys : HookedOrAt(k) => LabelsReplaced(k)

\* the hook is about to be invoked in a non-dry-run Phase 2
C10_Witness ==
    /\ phase = "handle" /\ ~is_dry_run /\ pc = "hook"
    /\ LabelsReplaced(issue.key)

----------------------------------------------------------------------------
(* C11. Pagination with empty results: get_issues always makes at least one *)
(* request before it returns, its first request is at offset 0 with limit   *)
(* 200, and when the tracker's result set is empty (total 0, no tickets)    *)
(* it returns the empty list after exactly that one request.                *)
C11_EmptyResult ==
    phase = "get_issues" =>
        /\ Len(Requests) >= 1 => Requests[1] = <<0, 200>>
        /\ pc = "done" => Len(Requests) >= 1
        /\ (pc = "done" /\ universe = 0) => (Len(Requests) = 1 /\ issues = <<>>)

\* get_issues returned the empty list after one request
C11_Witness ==
    /\ phase = "get_issues" /\ pc = "done"
    /\ universe = 0
    /\ Requests = <<<<0, 200>>>>
    /\ issues = <<>>

----------------------------------------------------------------------------
(* C12. Pagination termination: against a tracker that reports a stable     *)
(* total T and answers every request at an offset below T with at least one *)
(* ticket, a call of get_issues makes at most max(1, T) requests, at most   *)
(* max(1, ceil(T / 200)) when every page is full, and every call that has   *)
(* started eventually ends (it returns, or a failed request raises).        *)
RequestBound ==
    IF pages = "full" THEN Max(1, Pages200(universe)) ELSE Max(1, universe)

----------------------------------------------------------------------------
(* C13. Dry run previews real run.  The steps a phase takes are read off    *)
(* its trace as <<action, key>> pairs: in a dry run from the DRY RUN log    *)
(* lines, in a non-dry run from the mutating tracker calls.  PlannedSteps   *)
(* is what the tracker's read responses (the returned ticket list, the      *)
(* subtask answers) determine, so two executions over the same read         *)
(* responses have the same PlannedSteps.                                    *)
ActionOfLine(e) ==
    CASE e.op = "Adding label" -> "add_label"
      [] e.op = "Replace label" -> "replace_label"
      [] e.op = "Adding comment" -> "add_comment"
      [] e.op = "Closing" -> "close_issue"
      [] e.op = "Unassigning" -> "unassign"
      [] e.op = "Setting to" -> "set_priority"
      [] OTHER -> "?"

ActionOfCall(e) ==
    CASE e.op = "issue_add_comment" -> "add_comment"
      [] e.op = "set_issue_status" -> "close_issue"
      [] e.op = "assign_issue" -> "unassign"
      [] e.op = "update_issue_field" ->
            IF e.arg[1] = "priority" THEN "set_priority"
            ELSE IF phase = "handle" THEN "replace_label" ELSE "add_label"
      [] OTHER -> "?"

Lines ==
    LET ls == SelectSeq(trace, LAMBDA e : e.kind = "log")
    IN [i \in 1..Len(ls) |-> <<ActionOfLine(ls[i]), ls[i].key>>]

Calls ==
    LET cs == SelectSeq(trace, IsMutation)
    IN [i \in 1..Len(cs) |-> <<ActionOfCall(cs[i]), cs[i].key>>]

Steps == IF is_dry_run THEN Lines ELSE Calls

HookAction ==
    CASE rule = "close" -> "close_issue"
      [] rule = "unassign" -> "unassign"
      [] OTHER -> "set_priority"

RECURSIVE PlanFrom(_)
PlanFrom(i) ==
    IF i > Len(issues) THEN <<>>
    ELSE LET k == issues[i].key
         IN IF phase = "mark"
            THEN (IF subtasks[k] = 0
                  THEN <<<<"add_label", k>>, <<"add_comment", k>>>>
                  ELSE <<>>) \o PlanFrom(i + 1)
            ELSE IF In(warning_label, issues[i].labels \o <<done_label>>)
                 THEN <<<<"add_comment", k>>, <<"replace_label", k>>, <<HookAction, k>>>>
                      \o PlanFrom(i + 1)
                 ELSE <<<<"add_comment", k>>>>

PlannedSteps == PlanFrom(1)

IsPrefix(a, b) == Len(a) <= Len(b) /\ SubSeq(b, 1, Len(a)) = a

ReadsOk ==
    \A i \in 1..Len(trace) :
        (trace[i].kind = "tracker" /\ trace[i].op \in {"jql", "get_issue"}) => trace[i].ok

WritesOk == \A i \in 1..Len(trace) : IsMutation(trace[i]) => trace[i].ok

Phased == phase \in {"mark", "handle"}

(* C13 as claimed: over read responses that all succeed, the mutating calls *)
(* of a finished non-dry-run execution of a phase are, in order, key and    *)
(* action, the planned steps, which are the lines of the dry run.           *)
C13_DryRunPreviews ==
    (Phased /\ ~is_dry_run /\ pc \in {"done", "failed"} /\ ReadsOk) =>
        Calls = PlannedSteps

(* C13, amended.  A dry run makes no tracker write; the steps of any        *)
(* execution are a prefix of the planned steps; and an execution that ended *)
(* with every read answered and no tracker write failing took exactly the   *)
(* planned steps: so a dry run's lines are, in order, key and action, the   *)
(* mutating calls of a non-dry run in which no tracker write fails.         *)
C13_DryRunPreviewsUnfailed ==
    Phased =>
        /\ is_dry_run => (jira = jira0 /\ Calls = <<>>)
        /\ ~is_dry_run => Lines = <<>>
        /\ IsPrefix(Steps, PlannedSteps)
        /\ (pc \in {"done", "failed"} /\ ReadsOk /\ WritesOk) => Steps = PlannedSteps

\* a dry run of Phase 2 that logged the three steps of each of two tickets
C13_Witness ==
    /\ phase = "handle" /\ pc = "done" /\ is_dry_run
    /\ Len(PlannedSteps) = 6
    /\ Lines = PlannedSteps

----------------------------------------------------------------------------
(* C14. Activity oracle correctness.  Phase 1 logs what the oracle answered *)
(* for a ticket: "ignoring" when has_recently_updated_subtask returned      *)
(* true, "marked stale" when it returned false.                             *)
Verdicts == {"marked stale", "ignoring"}

IsVerdict(e) == e.kind = "info" /\ e.op \in Verdicts

\* the position of the get_issue call that precedes position i
FetchBefore(i) ==
    LET fs == {g \in 1..(i - 1) : trace[g].kind = "tracker" /\ trace[g].op = "get_issue"}
    IN IF fs = {} THEN 0 ELSE CHOOSE g \in fs : \A h \in fs : h <= g

(* C14. has_recently_updated_subtask(parent, d) returns true exactly when   *)
(* the subtask query of the parent, retrieved through get_issues, yields at *)
(* least one ticket, false when none matches; between the parent's fetch    *)
(* and the answer it only searches, it issues no mutation.                  *)
C14_OracleCorrect ==
    phase = "mark" =>
        \A i \in 1..Len(trace) :
            IsVerdict(trace[i]) =>
                LET k == trace[i].key
                    found == Matching(jira, Query("subtasks", k))
                    g == FetchBefore(i)
                IN /\ (trace[i].op = "ignoring") <=> (Len(found) >= 1)
                   /\ (trace[i].op = "marked stale") <=> (Len(found) = 0)
                   /\ trace[i - 1] = Ev("info", "returned", 0, Len(found), TRUE)
                   /\ g > 0 /\ trace[g].key = k
                   /\ \A h \in (g + 1)..(i - 2) :
                         trace[h].kind = "tracker" /\ trace[h].op = "jql" /\ trace[h].ok

\* one run in which the oracle answered true for a ticket and false for another
C14_Witness ==
    /\ phase = "mark"
    /\ \E i, h \in 1..Len(trace) :
          /\ trace[i].kind = "info" /\ trace[i].op = "ignoring"
          /\ trace[h].kind = "info" /\ trace[h].op = "marked stale"
          /\ subtasks[trace[i].key] >= 1
          /\ subtasks[trace[h].key] = 0

----------------------------------------------------------------------------
\* this step sent a search request
Requested ==
    /\ Len(trace') = Len(trace) + 1
    /\ trace'[Len(trace')].kind = "tracker"
    /\ trace'[Len(trace')].op = "jql"

(* C15. Pagination cursor invariant: every search request of get_issues has *)
(* limit 200 and an offset equal to the number of tickets accumulated so    *)
(* far, so the cursor advances by what a page actually held; over a stable  *)
(* result set get_issues therefore returns every matching ticket exactly    *)
(* once, in order, also when the tracker answers with shorter pages.        *)
C15_CursorInvariant ==
    /\ [][Requested => trace'[Len(trace')].arg = <<Len(acc), 200>>]_vars
    /\ [](pc = "get_issues" => current = Len(acc))
    /\ []((phase = "get_issues" /\ pc = "done") =>
             issues = [i \in 1..universe |-> Row(i)])

\* a call answered with a short page asked again from where that page ended
C15_Witness ==
    /\ phase = "get_issues" /\ pc = "done"
    /\ pages = "short"
    /\ Len(Requests) >= 2
    /\ Requests[2] = <<ShortPage, 200>>
    /\ Len(issues) = universe

----------------------------------------------------------------------------
\* ticket k is as it was created: Phase 1 never wrote to it
Untouched(k) == jira[k].comments = <<>> /\ jira[k].labels \in InitLabels

(* C16. Phase 1 label idempotence under query scoping: when the candidate   *)
(* query excludes every ticket that carries warning_label, non-dry-run      *)
(* mark_stale_tickets_stale, run any number of times in succession (also    *)
(* after a run that failed), adds warning_label to a ticket at most once    *)
(* and the warning comment at most once: a run writes nothing to a ticket   *)
(* that carried the label when the run started, and no ticket the phase     *)
(* wrote to carries two occurrences of warning_label.                       *)
C16_ScopedMarkOnce ==
    \A k \in Keys :
        /\ Count(WarningText, jira[k].comments) <= 1
        /\ Count(warning_label, jira[k].labels) <= 1 \/ Untouched(k)
        /\ jira[k].comments # <<>> => Count(warning_label, jira[k].labels) = 1
        /\ In(warning_label, jira0[k].labels) => MutationsOf(k) = <<>>
        /\ Len(SelectSeq(MutationsOf(k), LAMBDA e : e.ok)) <= 2

\* a second run left alone a ticket that the first run had warned
C16_Witness ==
    /\ runs = 2 /\ pc = "done"
    /\ \E k \in Keys :
          /\ jira0[k].labels = <<other_label, warning_label>>
          /\ jira0[k].comments = <<WarningText>>
          /\ jira[k] = jira0[k]
          /\ MutationsOf(k) = <<>>

----------------------------------------------------------------------------
\* the labels ticket k has on the tracker when the event at position g happens:
\* those of the last change made to it before g, by another user or by the
\* run, or those it had when the run started
LabelsAt(k, g) ==
    LET cs == {h \in 1..(g - 1) :
                  /\ trace[h].key = k
                  /\ \/ trace[h].kind = "external"
                     \/ IsLabelsWrite(trace[h]) /\ trace[h].ok}
    IN IF cs = {} THEN jira0[k].labels
       ELSE LET h == CHOOSE x \in cs : \A y \in cs : y <= x
            IN IF trace[h].kind = "external" THEN trace[h].arg ELSE trace[h].arg[2]

(* C17. Phase 1 writes labels from the re-fetched ticket: the label list    *)
(* add_label sends for a warned candidate is the list get_issue(key)        *)
(* returned when the ticket was processed, with warning_label appended; so  *)
(* a change another user made to the ticket's labels between the candidate  *)
(* query and the ticket's fetch is kept, and every other label is sent      *)
(* unchanged.                                                               *)
C17_WritesRefetchedLabels ==
    phase = "mark" =>
        \A i \in 1..Len(trace) :
            IsLabelsWrite(trace[i]) =>
                LET k == trace[i].key
                    g == FetchBefore(i)
                IN /\ g > 0 /\ trace[g].key = k /\ trace[g].ok
                   /\ trace[i].arg[2] = LabelsAt(k, g) \o <<warning_label>>

\* a ticket was edited after the candidate query returned it and before it
\* was fetched, and the write that warned it carried the edit
C17_Witness ==
    /\ phase = "mark" /\ pc = "done"
    /\ \E e, g, i \in 1..Len(trace) :
          /\ e < g /\ g < i
          /\ trace[1].kind = "tracker" /\ trace[2].kind = "info" /\ 2 < e
          /\ trace[e].kind = "external"
          /\ trace[g].kind = "tracker" /\ trace[g].op = "get_issue"
          /\ trace[g].key = trace[e].key
          /\ IsLabelsWrite(trace[i]) /\ trace[i].ok /\ trace[i].key = trace[e].key
          /\ trace[i].arg[2] = trace[e].arg \o <<warning_label>>
          /\ trace[e].arg # jira0[trace[e].key].labels
          /\ jira[trace[e].key].labels = trace[e].arg \o <<warning_label>>

----------------------------------------------------------------------------
\* the place of ticket k in the list the phase's query returned
Pos(k) == CHOOSE i \in 1..Len(issues) : issues[i].key = k

\* the events that name a ticket: its fetch, the gateway operations, the
\* tracker writes, the log lines and the hook
Keyed(e) == e.key \in Keys

\* where the retrieval sweep of the phase's own query ended; 0 while it runs
SweepEnd ==
    LET rs == {i \in 1..Len(trace) : trace[i].kind = "info" /\ trace[i].op = "returned"}
    IN IF rs = {} THEN 0 ELSE CHOOSE i \in rs : \A h \in rs : i <= h

IsSearch(e) == e.kind = "tracker" /\ e.op = "jql"

(* C18. Sequential per-ticket processing: within a phase everything done    *)
(* for the i-th returned ticket (its fetch, its activity check, its         *)
(* mutations, its hook) happens before anything done for the (i+1)-th, and  *)
(* the retrieval sweep of the phase's own query has completed before the    *)
(* first per-ticket call, hence before the first mutation.                  *)
C18_Sequential ==
    Phased =>
        /\ LET ks == SelectSeq(trace, Keyed)
           IN /\ \A a \in 1..Len(ks) :
                    \E i \in 1..Len(issues) : issues[i].key = ks[a].key
              /\ \A a \in 1..(Len(ks) - 1) : Pos(ks[a].key) <= Pos(ks[a + 1].key)
        /\ IF SweepEnd = 0
           THEN \A h \in 1..Len(trace) : IsSearch(trace[h])
           ELSE /\ \A h \in 1..(SweepEnd - 1) : IsSearch(trace[h])
                /\ \A h \in (SweepEnd + 1)..Len(trace) :
                      IsSearch(trace[h]) =>
                          /\ phase = "mark"
                          /\ FetchBefore(h) > SweepEnd
                          /\ \A x \in (FetchBefore(h) + 1)..(h - 1) : IsSearch(trace[x])

\* a run that fetched, checked and warned a first ticket, then a second one
C18_Witness ==
    /\ phase = "mark" /\ pc = "done" /\ ~is_dry_run
    /\ Len(issues) = 2
    /\ \A k \in {issues[1].key, issues[2].key} : Len(MutationsOf(k)) = 2
    /\ Len(SelectSeq(trace, IsSearch)) = 3

====
